---- MODULE Spec2Model ----
(***************************************************************************)
(* The traffic simulation engine: the simulator controller                 *)
(* (server/controllers/simulatorController.js) and the simulator service   *)
(* (server/services/simulatorService.js).                                  *)
(*                                                                         *)
(* One step of the model is one run-to-completion turn of the Node.js      *)
(* event loop: an HTTP handler, or the continuation of a session or of     *)
(* runSimulation after the promise it awaits settles, together with the    *)
(* promise continuations (microtasks) that turn makes runnable.            *)
(* Wall-clock time is not modelled: a timer or an outbound request may     *)
(* complete at any moment after it was started.                            *)
(***************************************************************************)
EXTENDS Integers, Sequences, FiniteSets, TLC

VARIABLES
    currentSimulation,  \* controller: id of the current simulation object, or NoSimulation
    activeSimulations,  \* service: key set of the activeSimulations Map
    simulations,        \* heap: the simulation objects ever created, indexed by id
    runSim,             \* per simulation: where its runSimulation() call stands
    userSessions,       \* per simulation: the simulateUserSession() calls launched so far
    catalog,            \* which behaviour catalog the service selects from
    executor,           \* what answers the outbound requests: the analysis endpoint,
                        \* whose calls can fail, or a stub that always succeeds
    res                 \* the HTTP response sent by the step just taken, if it was a handler

vars == <<currentSimulation, activeSimulations, simulations, runSim, userSessions,
          catalog, executor, res>>

----------------------------------------------------------------------------
(* Bounds of the exploration *)

MaxSimulations == 2     \* simulations created in one behaviour
MaxSessions == 2        \* largest session count a Start is given
MaxRequests == 2        \* request attempts issued in one behaviour, over all sessions

(* Program constants *)

MinSessionsAllowed == 1
MaxSessionsAllowed == 1000
MinDelayAllowed == 100
MaxDelayAllowed == 10000
NoSimulation == 0       \* currentSimulation = null
RandomScale == 100      \* Math.random() is drawn in hundredths: r stands for r / 100

\* Values of Math.random(), in hundredths of [0, 1).
RandomDraws == {5 * k : k \in 0..19}

\* The values explored for each draw of a session: a low and a high draw for
\* the profile and for the retry decision, the lowest draw for the length.
BehaviorDraws == {0, 95}
LengthDraws == {0}
RetryDraws == {0, 95}

\* Request bodies POST /simulate/start is given: the smallest in-bounds session
\* count and MaxSessions with an in-bounds delay, and bodies with one value just
\* outside its bounds.
StartBodies ==
    {[sessions |-> n, delay |-> MinDelayAllowed] : n \in {MinSessionsAllowed, MaxSessions}}
    \cup {[sessions |-> n, delay |-> MinDelayAllowed] :
             n \in {MinSessionsAllowed - 1, MaxSessionsAllowed + 1}}
    \cup {[sessions |-> MinSessionsAllowed, delay |-> d] :
             d \in {MinDelayAllowed - 1, MaxDelayAllowed + 1}}

\* Latencies (ms) an outbound request can be observed to take.
Latencies == {50}

\* error.code of a rejected axios call; NoCode is an error without a code.
NoCode == "undefined"
ErrorCodes == {"ERR_BAD_RESPONSE", NoCode}
ErrorTypes == {"ERR_BAD_RESPONSE", "UNKNOWN_ERROR"}

----------------------------------------------------------------------------
(* The behaviour catalog.  Weights and error tolerances are in hundredths. *)

USER_BEHAVIORS == <<
    [name |-> "Quick Browser", weight |-> 30,
     sessionLength |-> [min |-> 2, max |-> 5],
     requestDelay |-> [min |-> 500, max |-> 1500], errorTolerance |-> 80],
    [name |-> "Thorough Researcher", weight |-> 40,
     sessionLength |-> [min |-> 8, max |-> 15],
     requestDelay |-> [min |-> 2000, max |-> 5000], errorTolerance |-> 90],
    [name |-> "Casual User", weight |-> 20,
     sessionLength |-> [min |-> 3, max |-> 8],
     requestDelay |-> [min |-> 1000, max |-> 3000], errorTolerance |-> 60],
    [name |-> "Impatient User", weight |-> 10,
     sessionLength |-> [min |-> 1, max |-> 3],
     requestDelay |-> [min |-> 200, max |-> 800], errorTolerance |-> 30] >>

\* A catalog for the error-tolerance scenarios: one profile that never retries
\* and one that always does.
STUB_BEHAVIORS == <<
    [name |-> "Never Retries", weight |-> 50,
     sessionLength |-> [min |-> 1, max |-> 3],
     requestDelay |-> [min |-> 200, max |-> 800], errorTolerance |-> 0],
    [name |-> "Always Retries", weight |-> 50,
     sessionLength |-> [min |-> 1, max |-> 3],
     requestDelay |-> [min |-> 200, max |-> 800], errorTolerance |-> 100] >>

\* The catalog in use.
userBehaviors == IF catalog = "stub" THEN STUB_BEHAVIORS ELSE USER_BEHAVIORS

\* selectUserBehavior(): the index of the first profile with
\* random <= cumulativeWeight, the first profile when the walk falls through.
RECURSIVE WalkBehaviors(_, _, _)
WalkBehaviors(random, k, cumulativeWeight) ==
    IF k > Len(userBehaviors) THEN 1
    ELSE LET cumulative == cumulativeWeight + userBehaviors[k].weight
         IN  IF random <= cumulative THEN k
             ELSE WalkBehaviors(random, k + 1, cumulative)

selectUserBehavior(random) == WalkBehaviors(random, 1, 0)

\* Math.floor(Math.random() * (max - min) + min)
RandomBetween(random, min, max) == min + ((random * (max - min)) \div RandomScale)

DrawSessionLength(behavior, random) ==
    RandomBetween(random, behavior.sessionLength.min, behavior.sessionLength.max)

\* Variant: the tolerance test made inclusive.
ShouldRetryInclusive(behavior, random) == random <= behavior.errorTolerance

\* Math.random() < userBehavior.errorTolerance
ShouldRetry(behavior, random) == random < behavior.errorTolerance

\* What the random draws of a session can come to.
SelectableBehaviors == {selectUserBehavior(random) : random \in BehaviorDraws}

DrawableLengths(behavior) ==
    {DrawSessionLength(userBehaviors[behavior], random) : random \in LengthDraws}

RetryDecisions(behavior) ==
    {ShouldRetry(userBehaviors[behavior], random) : random \in RetryDraws}

----------------------------------------------------------------------------
(* Statistics *)

RECURSIVE SumSeq(_)
SumSeq(s) == IF s = <<>> THEN 0 ELSE Head(s) + SumSeq(Tail(s))

\* Math.round(a / b) for a >= 0, b > 0
RoundDiv(a, b) == (2 * a + b) \div (2 * b)

calculateAvgResponseTime(responseTimes) ==
    IF Len(responseTimes) = 0 THEN 0
    ELSE RoundDiv(SumSeq(responseTimes), Len(responseTimes))

EmptyStatistics ==
    [totalRequests |-> 0, successfulRequests |-> 0, failedRequests |-> 0,
     responseTimes |-> <<>>, sessionDurations |-> 0,
     errorCounts |-> [e \in ErrorTypes |-> 0]]

\* Variant: a new simulation taking over the statistics record of the one
\* created before it.
NewSimulationKeepsStatistics(simulationId, sessions, delay) ==
    [id |-> simulationId, isRunning |-> TRUE, sessions |-> sessions, delay |-> delay,
     completed |-> 0, failed |-> 0,
     statistics |-> IF simulations = <<>> THEN EmptyStatistics
                    ELSE simulations[Len(simulations)].statistics]

NewSimulation(simulationId, sessions, delay) ==
    [id |-> simulationId, isRunning |-> TRUE, sessions |-> sessions, delay |-> delay,
     completed |-> 0, failed |-> 0, statistics |-> EmptyStatistics]

\* The object stopSimulation() returns (duration, a wall-clock reading, left out).
StopSnapshot(simulation) ==
    [completed |-> simulation.completed,
     failed |-> simulation.failed,
     totalRequests |-> simulation.statistics.totalRequests,
     successfulRequests |-> simulation.statistics.successfulRequests,
     failedRequests |-> simulation.statistics.failedRequests,
     avgResponseTime |-> calculateAvgResponseTime(simulation.statistics.responseTimes)]

\* Variant: progress.total read from the completed counter.
ProgressTotalFromCompleted(simulation) ==
    [completed |-> simulation.completed,
     total |-> simulation.completed,
     percentage |-> RoundDiv(simulation.completed * 100, simulation.sessions)]

\* The progress object of getSimulationStatus().
Progress(simulation) ==
    [completed |-> simulation.completed,
     total |-> simulation.sessions,
     percentage |-> RoundDiv(simulation.completed * 100, simulation.sessions)]

\* service getSimulationStatus(): found = FALSE stands for the null it returns.
getSimulationStatus(simulationId) ==
    IF simulationId \notin activeSimulations THEN [found |-> FALSE]
    ELSE LET simulation == simulations[simulationId]
         IN  [found |-> TRUE,
              progress |-> Progress(simulation),
              statistics |->
                  [totalRequests |-> simulation.statistics.totalRequests,
                   successfulRequests |-> simulation.statistics.successfulRequests,
                   failedRequests |-> simulation.statistics.failedRequests,
                   avgResponseTime |->
                       calculateAvgResponseTime(simulation.statistics.responseTimes),
                   errorBreakdown |-> simulation.statistics.errorCounts]]

----------------------------------------------------------------------------
(* Sessions *)

Terminal == {"completed", "failed"}

SimulationIds == 1..Len(simulations)

RECURSIVE SumAttempts(_)
SumAttempts(sessions) ==
    IF sessions = <<>> THEN 0 ELSE Head(sessions).attempts + SumAttempts(Tail(sessions))

RECURSIVE SumIssued(_)
SumIssued(id) == IF id = 0 THEN 0 ELSE SumAttempts(userSessions[id]) + SumIssued(id - 1)

\* Request attempts issued so far, over all sessions of all simulations.
TotalIssued == SumIssued(Len(simulations))

\* Retries make the number of attempts of a session unbounded; the exploration
\* caps it.  With an executor that always succeeds a session issues exactly
\* sessionLength attempts and no cap is needed.
CanIssue == executor = "succeeds" \/ TotalIssued < MaxRequests

\* Variant: the attempt sent without being counted.
IssueRequestUncounted(simulation) == simulation

\* simulateUserRequest() up to its await: count the attempt, send the request.
IssueRequest(simulation) ==
    [simulation EXCEPT !.statistics.totalRequests = @ + 1]

\* Variant: the completion of a session counted twice.
CompleteSessionCountsTwice(simulation) ==
    [simulation EXCEPT !.completed = @ + 2, !.statistics.sessionDurations = @ + 1]

\* The end of simulateUserSession()'s try block.
CompleteSession(simulation) ==
    [simulation EXCEPT !.completed = @ + 1, !.statistics.sessionDurations = @ + 1]

\* Variant: a failed session counted as completed as well.
FailSessionAlsoCompletes(simulation, code) ==
    LET errorType == IF code = NoCode THEN "UNKNOWN_ERROR" ELSE code
    IN  [simulation EXCEPT !.failed = @ + 1, !.completed = @ + 1,
                           !.statistics.errorCounts[errorType] = @ + 1]

\* Variant: a failed session ending the whole run.
FailSessionStopsRun(simulation, code) ==
    LET errorType == IF code = NoCode THEN "UNKNOWN_ERROR" ELSE code
    IN  [simulation EXCEPT !.failed = @ + 1, !.isRunning = FALSE,
                           !.statistics.errorCounts[errorType] = @ + 1]

\* simulateUserSession()'s catch block.
FailSession(simulation, code) ==
    LET errorType == IF code = NoCode THEN "UNKNOWN_ERROR" ELSE code
    IN  [simulation EXCEPT !.failed = @ + 1,
                           !.statistics.errorCounts[errorType] = @ + 1]

\* The loop test of simulateUserSession().
SessionContinues(simulation, session) ==
    session.req < session.sessionLength /\ simulation.isRunning

\* simulateUserSession() from its call to its first await, for the profile
\* (an index of the catalog) and the session length it drew.
\* Returns <<simulation, session>>.
StartSession(simulation, sessionIndex, behavior, sessionLength) ==
    LET session == [sessionIndex |-> sessionIndex,
                    behavior |-> behavior,
                    sessionLength |-> sessionLength,
                    req |-> 0, pc |-> "request",
                    attempts |-> 1, successes |-> 0, failures |-> 0]
    IN  IF SessionContinues(simulation, session)
        THEN <<IssueRequest(simulation), session>>
        ELSE <<CompleteSession(simulation),
               [session EXCEPT !.pc = "completed", !.attempts = 0]>>

\* Variant: runSimulation() waiting for the first session to settle only.
AllSettledOnFirst(run, sessions) ==
    run.pc = "settle" /\ \E k \in 1..Len(sessions) : sessions[k].pc \in Terminal

\* The continuation of runSimulation() after Promise.allSettled(promises): it
\* runs in the turn in which the last promise settles, or at once when all
\* have settled already.
AllSettled(run, sessions) ==
    run.pc = "settle" /\ \A k \in 1..Len(sessions) : sessions[k].pc \in Terminal

\* Variant: runSimulation() without its final isRunning = false.
CommitLeavesRunning(id, simulation, sessions, run) ==
    /\ simulations' = [simulations EXCEPT ![id] = simulation]
    /\ userSessions' = [userSessions EXCEPT ![id] = sessions]
    /\ runSim' = [runSim EXCEPT ![id] =
           IF AllSettled(run, sessions) THEN [run EXCEPT !.pc = "done"] ELSE run]

\* Store what a turn did to simulation id, then run runSimulation()'s tail.
Commit(id, simulation, sessions, run) ==
    LET settled == AllSettled(run, sessions)
    IN  /\ simulations' = [simulations EXCEPT ![id] =
               IF settled THEN [simulation EXCEPT !.isRunning = FALSE] ELSE simulation]
        /\ userSessions' = [userSessions EXCEPT ![id] = sessions]
        /\ runSim' = [runSim EXCEPT ![id] =
               IF settled THEN [run EXCEPT !.pc = "done"] ELSE run]

NoResponse == [op |-> "none"]

\* runSimulation() after launching session i: wait for the stagger delay when
\* another session is to follow, for the launched sessions otherwise.
AfterLaunch(simulation, i) ==
    IF i < simulation.sessions - 1 THEN [pc |-> "stagger", i |-> i]
    ELSE [pc |-> "settle", i |-> i + 1]

----------------------------------------------------------------------------
(* Controller handlers *)

\* Variant: the isRunning flag of the current simulation not consulted.
AlreadyRunningIgnoresFlag == currentSimulation # NoSimulation

\* currentSimulation && currentSimulation.isRunning
AlreadyRunning ==
    currentSimulation # NoSimulation /\ simulations[currentSimulation].isRunning

\* Variant: the upper limit of the session count made exclusive.
InvalidSessionsExclusive(sessions) ==
    sessions < MinSessionsAllowed \/ sessions >= MaxSessionsAllowed

InvalidSessions(sessions) ==
    sessions < MinSessionsAllowed \/ sessions > MaxSessionsAllowed

InvalidDelay(delay) == delay < MinDelayAllowed \/ delay > MaxDelayAllowed

Reject(op, code) == [op |-> op, status |-> 400, code |-> code]

ControllerUnchanged ==
    UNCHANGED <<currentSimulation, activeSimulations, simulations, runSim,
                userSessions, catalog, executor>>

\* The early returns of the start handler, in the order it tests them:
\* the error code it answers with, Accepted when it goes on to start.
Accepted == "none"

\* Variant: the start handler without its already-running test.
StartRejectionNoConflict(sessions, delay) ==
    IF InvalidSessions(sessions) THEN "INVALID_SESSIONS_COUNT"
    ELSE IF InvalidDelay(delay) THEN "INVALID_DELAY"
    ELSE Accepted

StartRejection(sessions, delay) ==
    IF AlreadyRunning THEN "SIMULATION_IN_PROGRESS"
    ELSE IF InvalidSessions(sessions) THEN "INVALID_SESSIONS_COUNT"
    ELSE IF InvalidDelay(delay) THEN "INVALID_DELAY"
    ELSE Accepted

\* POST /simulate/start
startSimulation(sessions, delay) ==
    IF StartRejection(sessions, delay) # Accepted
    THEN /\ res' = Reject("start", StartRejection(sessions, delay))
         /\ ControllerUnchanged
    ELSE \E behavior \in SelectableBehaviors :
         \E sessionLength \in DrawableLengths(behavior) :
         LET simulationId == Len(simulations) + 1
             started == StartSession(NewSimulation(simulationId, sessions, delay),
                                     0, behavior, sessionLength)
             run == AfterLaunch(started[1], 0)
             settled == AllSettled(run, <<started[2]>>)
         IN  /\ Len(simulations) < MaxSimulations
             /\ CanIssue
             /\ simulations' = Append(simulations,
                    IF settled THEN [started[1] EXCEPT !.isRunning = FALSE]
                    ELSE started[1])
             /\ userSessions' = Append(userSessions, <<started[2]>>)
             /\ runSim' = Append(runSim,
                    IF settled THEN [run EXCEPT !.pc = "done"] ELSE run)
             /\ activeSimulations' = activeSimulations \cup {simulationId}
             /\ currentSimulation' = simulationId
             /\ res' = [op |-> "start", status |-> 200, code |-> "OK",
                        simulationId |-> simulationId,
                        sessions |-> sessions, delay |-> delay]
             /\ UNCHANGED <<catalog, executor>>

\* Variant: the stop handler without its currentSimulation = null.
stopSimulationKeepsCurrent ==
    IF ~AlreadyRunning
    THEN /\ res' = Reject("stop", "NO_SIMULATION_RUNNING")
         /\ ControllerUnchanged
    ELSE IF currentSimulation \notin activeSimulations
    THEN /\ res' = [op |-> "stop", status |-> 500, code |-> "SIMULATION_STOP_FAILED"]
         /\ ControllerUnchanged
    ELSE LET simulationId == currentSimulation
             statistics == StopSnapshot(simulations[simulationId])
         IN  /\ simulations' = [simulations EXCEPT ![simulationId].isRunning = FALSE]
             /\ activeSimulations' = activeSimulations \ {simulationId}
             /\ res' = [op |-> "stop", status |-> 200, code |-> "OK",
                        statistics |-> statistics]
             /\ UNCHANGED <<currentSimulation, runSim, userSessions, catalog, executor>>

\* POST /simulate/stop
stopSimulation ==
    IF ~AlreadyRunning
    THEN /\ res' = Reject("stop", "NO_SIMULATION_RUNNING")
         /\ ControllerUnchanged
    ELSE IF currentSimulation \notin activeSimulations
    THEN \* the service throws 'Simulation not found'
         /\ res' = [op |-> "stop", status |-> 500, code |-> "SIMULATION_STOP_FAILED"]
         /\ ControllerUnchanged
    ELSE LET simulationId == currentSimulation
             statistics == StopSnapshot(simulations[simulationId])
         IN  /\ simulations' = [simulations EXCEPT ![simulationId].isRunning = FALSE]
             /\ activeSimulations' = activeSimulations \ {simulationId}
             /\ currentSimulation' = NoSimulation
             /\ res' = [op |-> "stop", status |-> 200, code |-> "OK",
                        statistics |-> statistics]
             /\ UNCHANGED <<runSim, userSessions, catalog, executor>>

\* GET /simulate/status
StatusResponse ==
    IF currentSimulation = NoSimulation
    THEN [op |-> "status", status |-> 200, code |-> "OK",
          isRunning |-> FALSE, hasStatistics |-> FALSE]
    ELSE LET status == getSimulationStatus(currentSimulation)
         IN  IF ~status.found
             THEN \* status.statistics of null throws
                  [op |-> "status", status |-> 500, code |-> "TYPE_ERROR"]
             ELSE [op |-> "status", status |-> 200, code |-> "OK",
                   isRunning |-> simulations[currentSimulation].isRunning,
                   hasStatistics |-> TRUE,
                   simulationId |-> currentSimulation,
                   progress |-> status.progress,
                   statistics |-> status.statistics]

simulationStatus ==
    /\ res' = StatusResponse
    /\ ControllerUnchanged

----------------------------------------------------------------------------
(* Background turns of a simulation *)

BackgroundUnchanged ==
    /\ res' = NoResponse
    /\ UNCHANGED <<currentSimulation, activeSimulations, catalog, executor>>

\* Variant: the launch loop not testing isRunning.
StaggerElapsesIgnoresStop(id, behavior, sessionLength) ==
    /\ runSim[id].pc = "stagger"
    /\ LET simulation == simulations[id]
           i == runSim[id].i + 1
       IN  IF i < simulation.sessions
           THEN LET started == StartSession([simulation EXCEPT !.isRunning = TRUE],
                                            i, behavior, sessionLength)
                IN  /\ CanIssue
                    /\ Commit(id, [started[1] EXCEPT !.isRunning = simulation.isRunning],
                              Append(userSessions[id], started[2]),
                              AfterLaunch(simulation, i))
           ELSE Commit(id, simulation, userSessions[id], [pc |-> "settle", i |-> i])
    /\ BackgroundUnchanged

\* runSimulation(): the stagger timer fires; launch the next session if the
\* loop test still holds.
StaggerElapses(id, behavior, sessionLength) ==
    /\ runSim[id].pc = "stagger"
    /\ LET simulation == simulations[id]
           i == runSim[id].i + 1
       IN  IF i < simulation.sessions /\ simulation.isRunning
           THEN LET started == StartSession(simulation, i, behavior, sessionLength)
                IN  /\ CanIssue
                    /\ Commit(id, started[1], Append(userSessions[id], started[2]),
                              AfterLaunch(simulation, i))
           ELSE Commit(id, simulation, userSessions[id], [pc |-> "settle", i |-> i])
    /\ BackgroundUnchanged

\* Variant: the success counter written from the session's own count, the
\* increments of the other sessions lost.
RequestSucceedsLosesUpdates(id, k, responseTime) ==
    /\ userSessions[id][k].pc = "request"
    /\ LET simulation == simulations[id]
           session == userSessions[id][k]
       IN  Commit(id,
                  [simulation EXCEPT
                       !.statistics.responseTimes = Append(@, responseTime),
                       !.statistics.successfulRequests = session.successes + 1],
                  [userSessions[id] EXCEPT ![k] =
                       [session EXCEPT !.pc = "think", !.successes = @ + 1]],
                  runSim[id])
    /\ BackgroundUnchanged

\* Variant: a success recorded in the controller's current simulation instead
\* of the simulation the session belongs to.
RequestSucceedsRecordsInCurrent(id, k, responseTime) ==
    /\ userSessions[id][k].pc = "request"
    /\ LET target == IF currentSimulation = NoSimulation THEN id ELSE currentSimulation
       IN  /\ simulations' = [simulations EXCEPT
                  ![target].statistics.responseTimes = Append(@, responseTime),
                  ![target].statistics.successfulRequests = @ + 1]
           /\ userSessions' = [userSessions EXCEPT ![id][k].pc = "think",
                                                   ![id][k].successes = @ + 1]
           /\ UNCHANGED runSim
    /\ BackgroundUnchanged

\* axios.post resolves: record the latency and the success, start thinking.
RequestSucceeds(id, k, responseTime) ==
    /\ userSessions[id][k].pc = "request"
    /\ LET simulation == simulations[id]
           session == userSessions[id][k]
       IN  Commit(id,
                  [simulation EXCEPT
                       !.statistics.responseTimes = Append(@, responseTime),
                       !.statistics.successfulRequests = @ + 1],
                  [userSessions[id] EXCEPT ![k] =
                       [session EXCEPT !.pc = "think", !.successes = @ + 1]],
                  runSim[id])
    /\ BackgroundUnchanged

\* Variant: a failed attempt recorded without its latency sample.
RequestFailsDropsLatency(id, k, responseTime, code, retry) ==
    /\ userSessions[id][k].pc = "request"
    /\ LET session == userSessions[id][k]
           recorded == [simulations[id] EXCEPT !.statistics.failedRequests = @ + 1]
       IN  IF retry
           THEN Commit(id, recorded,
                       [userSessions[id] EXCEPT ![k] =
                            [session EXCEPT !.pc = "backoff", !.failures = @ + 1]],
                       runSim[id])
           ELSE Commit(id, FailSession(recorded, code),
                       [userSessions[id] EXCEPT ![k] =
                            [session EXCEPT !.pc = "failed", !.failures = @ + 1]],
                       runSim[id])
    /\ BackgroundUnchanged

\* Variant: the error kind counted for every failed attempt, retried or not.
RequestFailsCountsEveryFailure(id, k, responseTime, code, retry) ==
    /\ userSessions[id][k].pc = "request"
    /\ LET session == userSessions[id][k]
           errorType == IF code = NoCode THEN "UNKNOWN_ERROR" ELSE code
           recorded == [simulations[id] EXCEPT
                            !.statistics.responseTimes = Append(@, responseTime),
                            !.statistics.failedRequests = @ + 1,
                            !.statistics.errorCounts[errorType] = @ + 1]
       IN  IF retry
           THEN Commit(id, recorded,
                       [userSessions[id] EXCEPT ![k] =
                            [session EXCEPT !.pc = "backoff", !.failures = @ + 1]],
                       runSim[id])
           ELSE Commit(id, [recorded EXCEPT !.failed = @ + 1],
                       [userSessions[id] EXCEPT ![k] =
                            [session EXCEPT !.pc = "failed", !.failures = @ + 1]],
                       runSim[id])
    /\ BackgroundUnchanged

\* Variant: the retry issued at once, before the failed attempt is recorded.
RequestFailsRetriesAtOnce(id, k, responseTime, code, retry) ==
    /\ userSessions[id][k].pc = "request"
    /\ LET session == userSessions[id][k]
           recorded == [simulations[id] EXCEPT
                            !.statistics.responseTimes = Append(@, responseTime),
                            !.statistics.failedRequests = @ + 1]
       IN  IF retry
           THEN /\ CanIssue
                /\ Commit(id, IssueRequest(simulations[id]),
                          [userSessions[id] EXCEPT ![k] =
                               [session EXCEPT !.attempts = @ + 1]],
                          runSim[id])
           ELSE Commit(id, FailSession(recorded, code),
                       [userSessions[id] EXCEPT ![k] =
                            [session EXCEPT !.pc = "failed", !.failures = @ + 1]],
                       runSim[id])
    /\ BackgroundUnchanged

\* axios.post rejects: record the latency and the failure, then either wait
\* the retry delay or rethrow into simulateUserSession()'s catch block.
RequestFails(id, k, responseTime, code, retry) ==
    /\ userSessions[id][k].pc = "request"
    /\ LET session == userSessions[id][k]
           recorded == [simulations[id] EXCEPT
                            !.statistics.responseTimes = Append(@, responseTime),
                            !.statistics.failedRequests = @ + 1]
       IN  IF retry
           THEN Commit(id, recorded,
                       [userSessions[id] EXCEPT ![k] =
                            [session EXCEPT !.pc = "backoff", !.failures = @ + 1]],
                       runSim[id])
           ELSE Commit(id, FailSession(recorded, code),
                       [userSessions[id] EXCEPT ![k] =
                            [session EXCEPT !.pc = "failed", !.failures = @ + 1]],
                       runSim[id])
    /\ BackgroundUnchanged

\* Variant: the retry path observing the isRunning flag, the session giving up
\* when its simulation has been stopped.
BackoffElapsesObservesStop(id, k) ==
    /\ userSessions[id][k].pc = "backoff"
    /\ IF simulations[id].isRunning
       THEN /\ CanIssue
            /\ Commit(id, IssueRequest(simulations[id]),
                      [userSessions[id] EXCEPT ![k] =
                           [userSessions[id][k] EXCEPT !.pc = "request",
                                                       !.attempts = @ + 1]],
                      runSim[id])
       ELSE Commit(id, FailSession(simulations[id], NoCode),
                   [userSessions[id] EXCEPT ![k] =
                        [userSessions[id][k] EXCEPT !.pc = "failed"]],
                   runSim[id])
    /\ BackgroundUnchanged

\* Variant: a retry counted as the next logical request of the session.
BackoffElapsesAdvancesIndex(id, k) ==
    /\ userSessions[id][k].pc = "backoff"
    /\ CanIssue
    /\ Commit(id, IssueRequest(simulations[id]),
              [userSessions[id] EXCEPT ![k] =
                   [userSessions[id][k] EXCEPT !.pc = "request", !.attempts = @ + 1,
                                               !.req = @ + 1]],
              runSim[id])
    /\ BackgroundUnchanged

\* The retry delay elapses: simulateUserRequest() calls itself.
BackoffElapses(id, k) ==
    /\ userSessions[id][k].pc = "backoff"
    /\ CanIssue
    /\ Commit(id, IssueRequest(simulations[id]),
              [userSessions[id] EXCEPT ![k] =
                   [userSessions[id][k] EXCEPT !.pc = "request", !.attempts = @ + 1]],
              runSim[id])
    /\ BackgroundUnchanged

\* The think time elapses: next loop iteration, or the end of the session.
ThinkElapses(id, k) ==
    /\ userSessions[id][k].pc = "think"
    /\ LET simulation == simulations[id]
           session == [userSessions[id][k] EXCEPT !.req = @ + 1]
       IN  IF SessionContinues(simulation, session)
           THEN /\ CanIssue
                /\ Commit(id, IssueRequest(simulation),
                          [userSessions[id] EXCEPT ![k] =
                               [session EXCEPT !.pc = "request", !.attempts = @ + 1]],
                          runSim[id])
           ELSE Commit(id, CompleteSession(simulation),
                       [userSessions[id] EXCEPT ![k] =
                            [session EXCEPT !.pc = "completed"]],
                       runSim[id])
    /\ BackgroundUnchanged

----------------------------------------------------------------------------
(* Specifications *)

InitWith(chosen) ==
    /\ currentSimulation = NoSimulation
    /\ activeSimulations = {}
    /\ simulations = <<>>
    /\ runSim = <<>>
    /\ userSessions = <<>>
    /\ catalog = chosen
    /\ res = NoResponse

Init == InitWith("source") /\ executor = "endpoint"

\* The service run with the stub catalog in place of USER_BEHAVIORS.
InitStub == InitWith("stub") /\ executor = "endpoint"

\* The service run against a request executor that always succeeds.
InitAlwaysSucceeds == InitWith("source") /\ executor = "succeeds"

Start == \E body \in StartBodies : startSimulation(body.sessions, body.delay)

Stop == stopSimulation

Status == simulationStatus

LaunchNext == \E id \in SimulationIds, behavior \in SelectableBehaviors :
                  \E sessionLength \in DrawableLengths(behavior) :
                      StaggerElapses(id, behavior, sessionLength)

Succeed == \E id \in SimulationIds :
               \E k \in 1..Len(userSessions[id]), responseTime \in Latencies :
                   RequestSucceeds(id, k, responseTime)

Fail == executor = "endpoint" /\
        \E id \in SimulationIds :
            \E k \in 1..Len(userSessions[id]), responseTime \in Latencies :
                \E retry \in RetryDecisions(userSessions[id][k].behavior) :
                    \E code \in IF retry THEN {NoCode} ELSE ErrorCodes :
                        RequestFails(id, k, responseTime, code, retry)

Retry == \E id \in SimulationIds :
             \E k \in 1..Len(userSessions[id]) : BackoffElapses(id, k)

Think == \E id \in SimulationIds :
             \E k \in 1..Len(userSessions[id]) : ThinkElapses(id, k)

Next == Start \/ Stop \/ Status \/ LaunchNext \/ Succeed \/ Fail \/ Retry \/ Think

Spec == Init /\ [][Next]_vars

SpecStub == InitStub /\ [][Next]_vars

\* No Stop is issued and no request fails.  Timers fire and requests are
\* answered: each background turn that stays possible is eventually taken.
NextUndisturbed == Start \/ Status \/ LaunchNext \/ Succeed \/ Think

SpecAlwaysSucceeds ==
    /\ InitAlwaysSucceeds
    /\ [][NextUndisturbed]_vars
    /\ WF_vars(LaunchNext) /\ WF_vars(Succeed) /\ WF_vars(Think)

----------------------------------------------------------------------------
(* The random draws as functions of Math.random() *)

\* The two random draws of a session, applied to every value Math.random()
\* can take (in hundredths).
AllDraws == 0..(RandomScale - 1)

SelectBehavior ==
    /\ \E random \in AllDraws :
           res' = [op |-> "selectUserBehavior", random |-> random,
                   behavior |-> selectUserBehavior(random)]
    /\ ControllerUnchanged

DrawLength ==
    /\ \E behavior \in 1..Len(userBehaviors), random \in AllDraws :
           res' = [op |-> "sessionLength", behavior |-> behavior, random |-> random,
                   sessionLength |-> DrawSessionLength(userBehaviors[behavior], random)]
    /\ ControllerUnchanged

NextDraw == SelectBehavior \/ DrawLength

SpecDraws == Init /\ [][NextDraw]_vars

----------------------------------------------------------------------------
(* Properties *)

Running == {id \in SimulationIds : simulations[id].isRunning}

\* Stop is the only operation that deletes from activeSimulations.
Stopped(id) == id \notin activeSimulations

InFlight(id) == {k \in 1..Len(userSessions[id]) : userSessions[id][k].pc \notin Terminal}

\* Everything of a simulation that Stop's snapshot is taken from.
Counters(id) ==
    <<simulations[id].completed, simulations[id].failed, simulations[id].statistics>>

\* The controller's and the service's state, the responses apart.
SimulationState ==
    <<currentSimulation, activeSimulations, simulations, runSim, userSessions>>

InvalidParameterCodes == {"INVALID_SESSIONS_COUNT", "INVALID_DELAY"}

\* Session counts and delays around the limits of the validation.
SessionProbes == {MinSessionsAllowed - 1, MinSessionsAllowed, MinSessionsAllowed + 1,
                  MaxSessionsAllowed - 1, MaxSessionsAllowed, MaxSessionsAllowed + 1}
DelayProbes == {MinDelayAllowed - 1, MinDelayAllowed, MinDelayAllowed + 1,
                MaxDelayAllowed - 1, MaxDelayAllowed, MaxDelayAllowed + 1}

SessionsInBounds(sessions) == sessions \in MinSessionsAllowed..MaxSessionsAllowed
DelayInBounds(delay) == delay \in MinDelayAllowed..MaxDelayAllowed

\* C1: in every reachable state at most one simulation object has
\* isRunning = true.
AtMostOneRunning == Cardinality(Running) <= 1

\* C1 witness: a second simulation runs while a session of the first, stopped
\* one is still in flight.
TwoSimulationsOneRunning ==
    /\ Len(simulations) >= 2
    /\ simulations[2].isRunning
    /\ ~simulations[1].isRunning
    /\ InFlight(1) # {}

\* C2: once Stop has returned its statistics for a simulation, none of the
\* simulation's counters, latency samples, error counts or completed/failed
\* session counters changes any more.
StopSnapshotIsFinal ==
    [][\A id \in SimulationIds : Stopped(id) => Counters(id)' = Counters(id)]_vars

\* C3: every Status response that carries statistics has
\* successfulRequests + failedRequests = totalRequests.
StatusCountersAddUp ==
    (res.op = "status" /\ res.status = 200 /\ res.hasStatistics) =>
        res.statistics.successfulRequests + res.statistics.failedRequests
            = res.statistics.totalRequests

\* C4: a Start issued while a simulation is running is answered
\* SIMULATION_IN_PROGRESS and changes nothing of the simulations.
StartWhileRunningRejected ==
    [][(Running # {} /\ res'.op = "start") =>
           (res'.code = "SIMULATION_IN_PROGRESS" /\ UNCHANGED SimulationState)]_vars

\* C4 witness: a Start was just rejected as conflicting, its simulation still
\* having a request in flight.
StartConflictAnswered ==
    /\ res.op = "start"
    /\ res.code = "SIMULATION_IN_PROGRESS"
    /\ \E id \in Running : InFlight(id) # {}

StartValidationWhenIdle ==
    Running = {} =>
        \A sessions \in SessionProbes, delay \in DelayProbes :
            IF SessionsInBounds(sessions) /\ DelayInBounds(delay)
            THEN StartRejection(sessions, delay) = Accepted
            ELSE StartRejection(sessions, delay) \in InvalidParameterCodes

\* C5 amended, continued: a Start answered with an invalid-parameter code
\* creates no simulation and launches no session.
InvalidStartChangesNothing ==
    (res'.op = "start" /\ res'.code \in InvalidParameterCodes) =>
        UNCHANGED SimulationState

StatusRightAfterStart ==
    (res.op = "start" /\ res.code = "OK") =>
        /\ StatusResponse.status = 200
        /\ StatusResponse.isRunning
        /\ StatusResponse.hasStatistics
        /\ StatusResponse.simulationId = res.simulationId
        /\ StatusResponse.progress.total = res.sessions

\* C6 witness: a Start for MaxSessions sessions has just succeeded.
StartJustSucceeded ==
    res.op = "start" /\ res.code = "OK" /\ res.sessions = MaxSessions

\* C7: a Stop issued while no simulation is running is answered
\* NO_SIMULATION_RUNNING and changes nothing.
StopWhenIdleRejected ==
    [][(Running = {} /\ res'.op = "stop") =>
           (res'.code = "NO_SIMULATION_RUNNING" /\ UNCHANGED SimulationState)]_vars

\* C7 witness: a Stop was just rejected while the current simulation is one
\* that finished by itself.
StopAfterNaturalEndAnswered ==
    /\ res.op = "stop"
    /\ res.code = "NO_SIMULATION_RUNNING"
    /\ currentSimulation # NoSimulation
    /\ runSim[currentSimulation].pc = "done"

\* C8: once Stop has set isRunning = false, no session of that simulation
\* starts another request attempt.
NoAttemptAfterStop ==
    [][\A id \in SimulationIds :
           Stopped(id) => SumAttempts(userSessions[id])' = SumAttempts(userSessions[id])]_vars

NeverRetrying(session) ==
    userBehaviors[session.behavior].errorTolerance = 0 /\ session.successes = 0

\* C10: a session of error tolerance 0 whose requests all fail makes exactly
\* one attempt and is then counted failed; alone in its simulation, it leaves
\* totalRequests = failedRequests = 1 and failed = 1.
ZeroToleranceFailsAfterOneAttempt ==
    \A id \in SimulationIds : \A k \in 1..Len(userSessions[id]) :
        LET session == userSessions[id][k]
            simulation == simulations[id]
        IN  NeverRetrying(session) =>
                /\ session.attempts = 1
                /\ session.pc \in {"request", "failed"}
                /\ session.pc = "failed" =>
                       /\ session.failures = 1
                       /\ simulation.failed >= 1
                       /\ simulation.sessions = 1 =>
                              /\ simulation.statistics.totalRequests = 1
                              /\ simulation.statistics.failedRequests = 1
                              /\ simulation.failed = 1
                              /\ simulation.completed = 0

\* C10 witness: such a session, alone in its simulation, has failed.
ZeroToleranceSessionFailed ==
    \E id \in SimulationIds :
        /\ simulations[id].sessions = 1
        /\ NeverRetrying(userSessions[id][1])
        /\ userSessions[id][1].pc = "failed"

\* A session none of whose attempts has succeeded, run by a profile of
\* error tolerance 1.
AlwaysRetrying(session) ==
    userBehaviors[session.behavior].errorTolerance = RandomScale /\ session.successes = 0

\* C11: a session of error tolerance 1 whose requests all fail never reaches a
\* terminal state: each of its attempts so far has failed or is in flight, a
\* failure always leads to the retry delay, and when the delay elapses another
\* attempt is issued (the exploration's cap apart) whether or not isRunning
\* still holds.
AlwaysRetryingNeverTerminates ==
    \A id \in SimulationIds : \A k \in 1..Len(userSessions[id]) :
        LET session == userSessions[id][k]
        IN  AlwaysRetrying(session) =>
                /\ session.pc \in {"request", "backoff"}
                /\ session.attempts =
                       session.failures + (IF session.pc = "request" THEN 1 ELSE 0)
                /\ (session.pc = "backoff" /\ CanIssue) => ENABLED BackoffElapses(id, k)

\* C11 witness: such a session has failed an attempt after its simulation was
\* stopped and is about to retry.
AlwaysRetryingAfterStop ==
    \E id \in SimulationIds : \E k \in 1..Len(userSessions[id]) :
        /\ AlwaysRetrying(userSessions[id][k])
        /\ ~simulations[id].isRunning
        /\ userSessions[id][k].pc = "backoff"
        /\ userSessions[id][k].failures >= 1
        /\ CanIssue

\* A simulation whose run ended with every session completed and no failure.
CompletedCleanly(id) ==
    /\ id \in SimulationIds
    /\ simulations[id].completed = simulations[id].sessions
    /\ simulations[id].failed = 0
    /\ simulations[id].statistics.failedRequests = 0
    /\ simulations[id].statistics.totalRequests >= simulations[id].sessions
    /\ ~simulations[id].isRunning

\* C12: with an executor that always succeeds and no Stop, every simulation
\* started with N sessions eventually has completed = N, failed = 0,
\* failedRequests = 0, totalRequests >= N and isRunning = false: again and
\* again all the simulations started so far are in that state.
UndisturbedRunCompletes ==
    []<>(\A id \in SimulationIds : CompletedCleanly(id))

\* C12 witness: a simulation of MaxSessions sessions has ended that way, while
\* the Status response reports it.
UndisturbedRunCompleted ==
    /\ executor = "succeeds"
    /\ res.op = "status" /\ res.status = 200 /\ res.hasStatistics
    /\ ~res.isRunning
    /\ res.progress.completed = MaxSessions
    /\ CompletedCleanly(currentSimulation)
    /\ simulations[currentSimulation].sessions = MaxSessions

\* The sum of the counts of an error-kind histogram.
RECURSIVE SumCounts(_, _)
SumCounts(errorCounts, kinds) ==
    IF kinds = {} THEN 0
    ELSE LET kind == CHOOSE e \in kinds : TRUE
         IN  errorCounts[kind] + SumCounts(errorCounts, kinds \ {kind})

ErrorCountTotal(id) == SumCounts(simulations[id].statistics.errorCounts, ErrorTypes)

\* C13: the turn in which a session fails leaves every other session and every
\* other simulation as they were, leaves the launch loop where it stands and
\* isRunning as it is (runSimulation's own end apart, when the failed session
\* was the last one it waited for), and changes of the shared counters only
\* failed (+1) and one error-kind count (+1), next to the record of the failed
\* attempt itself.
SessionFailureIsLocal ==
    [][\A id \in SimulationIds : \A k \in 1..Len(userSessions[id]) :
        (userSessions[id][k].pc # "failed" /\ userSessions'[id][k].pc = "failed") =>
            LET ended == runSim[id].pc = "settle" /\ InFlight(id)' = {}
            IN  /\ Len(userSessions'[id]) = Len(userSessions[id])
                /\ \A j \in 1..Len(userSessions[id]) :
                       j # k => userSessions'[id][j] = userSessions[id][j]
                /\ \A other \in SimulationIds \ {id} :
                       /\ simulations'[other] = simulations[other]
                       /\ userSessions'[other] = userSessions[other]
                       /\ runSim'[other] = runSim[other]
                /\ UNCHANGED <<currentSimulation, activeSimulations>>
                /\ runSim'[id].i = runSim[id].i
                /\ ~ended => /\ simulations'[id].isRunning = simulations[id].isRunning
                             /\ runSim'[id] = runSim[id]
                /\ simulations'[id].failed = simulations[id].failed + 1
                /\ simulations'[id].completed = simulations[id].completed
                /\ ErrorCountTotal(id)' = ErrorCountTotal(id) + 1
                /\ simulations'[id].statistics.totalRequests
                       = simulations[id].statistics.totalRequests
                /\ simulations'[id].statistics.successfulRequests
                       = simulations[id].statistics.successfulRequests
                /\ simulations'[id].statistics.failedRequests
                       = simulations[id].statistics.failedRequests + 1]_vars

\* C13 witness: the first session of a running simulation has failed and a
\* later session was launched after it and is in flight.
LaterSessionLaunchedAfterFailure ==
    \E id \in SimulationIds :
        /\ simulations[id].isRunning
        /\ Len(userSessions[id]) >= 2
        /\ userSessions[id][1].pc = "failed"
        /\ userSessions[id][1].attempts = 1
        /\ userSessions[id][2].pc = "request"
        /\ simulations[id].statistics.totalRequests = 2
        /\ simulations[id].failed = 1

IdleStartAccepted ==
    Running = {} =>
        \A sessions \in SessionProbes, delay \in DelayProbes :
            (SessionsInBounds(sessions) /\ DelayInBounds(delay)) =>
                StartRejection(sessions, delay) = Accepted

\* C14 amended, second part: a successful Start creates a simulation with an
\* id no simulation had, isRunning = true, completed = failed = 0, no
\* successful or failed request, no latency sample and no error count, whatever
\* the earlier simulations hold; totalRequests counts the one attempt its first
\* session has issued within Start.  The earlier simulations are untouched.
StartCreatesFresh ==
    (res'.op = "start" /\ res'.code = "OK") =>
        LET id == res'.simulationId
            created == simulations'[id]
        IN  /\ id \notin SimulationIds
            /\ id \in SimulationIds'
            /\ currentSimulation' = id
            /\ activeSimulations' = activeSimulations \cup {id}
            /\ created.id = id
            /\ created.isRunning
            /\ created.sessions = res'.sessions
            /\ created.completed = 0
            /\ created.failed = 0
            /\ created.statistics.successfulRequests = 0
            /\ created.statistics.failedRequests = 0
            /\ created.statistics.responseTimes = <<>>
            /\ \A e \in ErrorTypes : created.statistics.errorCounts[e] = 0
            /\ Len(userSessions'[id]) = 1
            /\ created.statistics.totalRequests = 1
            /\ \A old \in SimulationIds :
                   /\ simulations'[old] = simulations[old]
                   /\ userSessions'[old] = userSessions[old]

CompletedSessionsRanAllRequests ==
    \A id \in SimulationIds : \A k \in 1..Len(userSessions[id]) :
        userSessions[id][k].pc = "completed" =>
            userSessions[id][k].successes = userSessions[id][k].sessionLength

\* C16: in every state in which no session of a simulation is in flight, the
\* counts of its error-kind histogram add up to failedRequests.
ErrorCountsMatchFailedRequests ==
    \A id \in SimulationIds :
        InFlight(id) = {} =>
            ErrorCountTotal(id) = simulations[id].statistics.failedRequests

\* C17: every attempt, first try or retry, is counted once in totalRequests;
\* the logical request index of a session advances only past a success; a
\* session that ran its loop to the end has sessionLength successful attempts
\* and sessionLength + (its failed attempts) attempts in all.
RetriesRepeatTheSameRequest ==
    \A id \in SimulationIds :
        /\ simulations[id].statistics.totalRequests = SumAttempts(userSessions[id])
        /\ \A k \in 1..Len(userSessions[id]) :
               LET session == userSessions[id][k]
               IN  /\ session.attempts = session.successes + session.failures
                          + (IF session.pc = "request" THEN 1 ELSE 0)
                   /\ session.req = session.successes
                          - (IF session.pc = "think" THEN 1 ELSE 0)
                   /\ (session.pc = "completed" /\ session.req = session.sessionLength) =>
                          /\ session.successes = session.sessionLength
                          /\ session.attempts = session.sessionLength + session.failures

\* C17 witness: a session has run its loop to the end after one of its
\* attempts had failed and was retried.
SessionCompletedAfterRetry ==
    \E id \in SimulationIds : \E k \in 1..Len(userSessions[id]) :
        /\ userSessions[id][k].pc = "completed"
        /\ userSessions[id][k].req = userSessions[id][k].sessionLength
        /\ userSessions[id][k].failures >= 1
        /\ simulations[id].statistics.totalRequests = userSessions[id][k].attempts

SessionsIn(id, pc) == {k \in 1..Len(userSessions[id]) : userSessions[id][k].pc = pc}

\* C18, in every state: completed counts exactly the sessions that ended their
\* loop and failed exactly those that threw, and a session has thrown only
\* when an attempt of its own failed (a stop alone makes no session throw).
TerminatedSessionsCounted ==
    \A id \in SimulationIds :
        /\ simulations[id].completed = Cardinality(SessionsIn(id, "completed"))
        /\ simulations[id].failed = Cardinality(SessionsIn(id, "failed"))
        /\ \A k \in SessionsIn(id, "failed") :
               /\ userSessions[id][k].failures >= 1
               /\ userSessions[id][k].attempts
                      = userSessions[id][k].successes + userSessions[id][k].failures

\* C18, in every step: a session that has terminated does nothing more, and a
\* session that terminates adds one to exactly one of the two counters.
TerminatesOnce ==
    \A id \in SimulationIds : \A k \in 1..Len(userSessions[id]) :
        /\ userSessions[id][k].pc \in Terminal =>
               userSessions'[id][k] = userSessions[id][k]
        /\ (userSessions[id][k].pc \notin Terminal
                /\ userSessions'[id][k].pc \in Terminal) =>
               simulations'[id].completed + simulations'[id].failed
                   = simulations[id].completed + simulations[id].failed + 1

\* C18: every launched session that terminates increments exactly one of the
\* completed / failed counters, exactly once, also when it ends because
\* isRunning became false mid-loop, and such a stop never makes it throw.
SessionsCountedOnce == []TerminatedSessionsCounted /\ [][TerminatesOnce]_vars

\* C18 witness: a session has ended before its last planned request because
\* its simulation was stopped, and is counted once, as completed.
SessionEndedByStop ==
    \E id \in SimulationIds : \E k \in 1..Len(userSessions[id]) :
        /\ Stopped(id)
        /\ userSessions[id][k].pc = "completed"
        /\ userSessions[id][k].req < userSessions[id][k].sessionLength
        /\ simulations[id].completed = 1
        /\ simulations[id].failed = 0

\* C19, in every state: the sessions launched for a simulation are those of
\* the indexes 0, 1, 2, ... in that order, each once, and never more than
\* `sessions` of them.
LaunchedInIndexOrder ==
    \A id \in SimulationIds :
        /\ Len(userSessions[id]) <= simulations[id].sessions
        /\ \A k \in 1..Len(userSessions[id]) : userSessions[id][k].sessionIndex = k - 1

\* C19, in every step: sessions are launched one at a time, and none is
\* launched for a simulation whose isRunning is false.
LaunchesOnlyWhileRunning ==
    \A id \in SimulationIds :
        /\ Len(userSessions'[id]) \in {Len(userSessions[id]), Len(userSessions[id]) + 1}
        /\ ~simulations[id].isRunning => Len(userSessions'[id]) = Len(userSessions[id])

LaunchSkippedAfterStop ==
    \E id \in SimulationIds :
        /\ Stopped(id)
        /\ runSim[id].pc \in {"settle", "done"}
        /\ Len(userSessions[id]) < simulations[id].sessions

\* The attempts of a session whose outcome has not been recorded yet.
Unresolved(session) == session.attempts - session.successes - session.failures

\* C20, in every state: a session has at most one attempt in flight, and a
\* simulation has at most one unrecorded attempt per session still running.
OneAttemptInFlight ==
    \A id \in SimulationIds :
        /\ \A k \in 1..Len(userSessions[id]) :
               /\ Unresolved(userSessions[id][k]) \in {0, 1}
               /\ Unresolved(userSessions[id][k]) = 1 <=> userSessions[id][k].pc = "request"
        /\ simulations[id].statistics.totalRequests
               - simulations[id].statistics.successfulRequests
               - simulations[id].statistics.failedRequests
               = Cardinality(SessionsIn(id, "request"))

\* C20, in every step: a session issues an attempt, the next request or a
\* retry, only when the outcome of each earlier one has been recorded.
IssuesAfterResolution ==
    \A id \in SimulationIds : \A k \in 1..Len(userSessions[id]) :
        userSessions'[id][k].attempts > userSessions[id][k].attempts =>
            /\ Unresolved(userSessions[id][k]) = 0
            /\ userSessions'[id][k].attempts = userSessions[id][k].attempts + 1

\* C20: within one session at most one request attempt is in flight at any
\* time; the next request or a retry is issued only after the previous
\* attempt's outcome has been resolved and recorded.
RequestsAreSequential == []OneAttemptInFlight /\ [][IssuesAfterResolution]_vars

\* C20 witness: a session is waiting for the answer to a retry, its first
\* attempt recorded as failed.
RetryInFlight ==
    \E id \in SimulationIds : \E k \in 1..Len(userSessions[id]) :
        /\ userSessions[id][k].pc = "request"
        /\ userSessions[id][k].attempts = 2
        /\ userSessions[id][k].failures = 1
        /\ simulations[id].statistics.failedRequests = 1
        /\ simulations[id].statistics.totalRequests = 2

RECURSIVE SumSuccesses(_)
SumSuccesses(sessions) ==
    IF sessions = <<>> THEN 0 ELSE Head(sessions).successes + SumSuccesses(Tail(sessions))

RECURSIVE SumFailures(_)
SumFailures(sessions) ==
    IF sessions = <<>> THEN 0 ELSE Head(sessions).failures + SumFailures(Tail(sessions))

\* C21: no counter update is lost: successfulRequests and failedRequests count
\* the attempts of all sessions that succeeded and that failed, and once all
\* sessions have terminated totalRequests counts all the attempts issued, each
\* of which has then succeeded or failed.
NoCounterUpdateLost ==
    \A id \in SimulationIds :
        /\ simulations[id].statistics.successfulRequests = SumSuccesses(userSessions[id])
        /\ simulations[id].statistics.failedRequests = SumFailures(userSessions[id])
        /\ InFlight(id) = {} =>
               /\ simulations[id].statistics.totalRequests = SumAttempts(userSessions[id])
               /\ simulations[id].statistics.totalRequests
                      = SumSuccesses(userSessions[id]) + SumFailures(userSessions[id])

\* C21 witness: the two sessions of one simulation have both terminated, each
\* after one successful attempt.
ConcurrentSessionsTerminated ==
    \E id \in SimulationIds :
        /\ Len(userSessions[id]) = 2
        /\ InFlight(id) = {}
        /\ userSessions[id][1].successes = 1
        /\ userSessions[id][2].successes = 1
        /\ simulations[id].statistics.successfulRequests = 2

\* The first profile whose cumulative weight exceeds the draw, the first
\* profile of the catalog when there is none.
RECURSIVE FirstExceeding(_, _, _)
FirstExceeding(random, k, cumulativeWeight) ==
    IF k > Len(userBehaviors) THEN 1
    ELSE LET cumulative == cumulativeWeight + userBehaviors[k].weight
         IN  IF random < cumulative THEN k
             ELSE FirstExceeding(random, k + 1, cumulative)

\* C22: for every draw selectUserBehavior returns a profile of the catalog,
\* namely the first one whose cumulative weight strictly exceeds the draw.
SelectsFirstExceeding ==
    res.op = "selectUserBehavior" =>
        /\ res.behavior \in 1..Len(userBehaviors)
        /\ res.behavior = FirstExceeding(res.random, 1, 0)

\* The session lengths a profile's session can draw.
LengthsDrawn(behavior) ==
    {DrawSessionLength(userBehaviors[behavior], random) : random \in AllDraws}

\* C23: for every profile the session lengths that can be drawn are exactly
\* the integers min..max of its sessionLength range, max included.
DrawnLengthsFillRange ==
    res.op = "sessionLength" =>
        LET range == userBehaviors[res.behavior].sessionLength
        IN  /\ res.sessionLength \in range.min..range.max
            /\ LengthsDrawn(res.behavior) = range.min..range.max

\* C24: in every state successfulRequests + failedRequests <= totalRequests,
\* and the difference is the number of request attempts in flight over all the
\* sessions of the simulation.
ResolvedNeverExceedIssued ==
    \A id \in SimulationIds :
        LET statistics == simulations[id].statistics
            resolved == statistics.successfulRequests + statistics.failedRequests
        IN  /\ resolved <= statistics.totalRequests
            /\ statistics.totalRequests - resolved
                   = Cardinality({k \in InFlight(id) : userSessions[id][k].pc = "request"})

\* C24 witness: two sessions of a simulation each have an attempt in flight.
TwoAttemptsInFlight ==
    \E id \in SimulationIds :
        /\ Cardinality(SessionsIn(id, "request")) = 2
        /\ simulations[id].statistics.totalRequests = 2
        /\ simulations[id].statistics.successfulRequests = 0
        /\ simulations[id].statistics.failedRequests = 0

\* C25: in every state the number of latency samples recorded is the number
\* of attempts resolved: Len(responseTimes) = successfulRequests + failedRequests.
OneSamplePerResolvedAttempt ==
    \A id \in SimulationIds :
        Len(simulations[id].statistics.responseTimes)
            = simulations[id].statistics.successfulRequests
                  + simulations[id].statistics.failedRequests

\* C25 witness: a simulation has recorded a failed and a successful attempt.
FailureAndSuccessSampled ==
    \E id \in SimulationIds :
        /\ simulations[id].statistics.successfulRequests = 1
        /\ simulations[id].statistics.failedRequests = 1
        /\ Len(simulations[id].statistics.responseTimes) = 2

CountersChangeByOwnSessions ==
    [][\A id \in SimulationIds :
           Counters(id)' # Counters(id) =>
               /\ userSessions'[id] # userSessions[id]
               /\ \A other \in SimulationIds \ {id} :
                      userSessions'[other] = userSessions[other]]_vars

\* C27 witness: the session of a stopped simulation, its request answered, has
\* just taken a step while the simulation started after it is running, its
\* own first request still unanswered.
EarlierSessionResolvedBesideNewRun ==
    /\ Len(simulations) = 2
    /\ res = NoResponse
    /\ Stopped(1)
    /\ simulations[1].sessions = 1
    /\ userSessions[1][1].successes + userSessions[1][1].failures = 1
    /\ simulations[2].isRunning
    /\ simulations[2].sessions = 1
    /\ userSessions[2][1].pc = "request"
    /\ userSessions[2][1].attempts = 1
    /\ simulations[2].statistics.totalRequests = 1
    /\ simulations[2].statistics.responseTimes = <<>>

\* C28: between requests, a non-null currentSimulation is a key of
\* activeSimulations; the Status handler is never handed a null status and the
\* Stop handler never hits 'Simulation not found'.
CurrentSimulationIsActive ==
    /\ currentSimulation # NoSimulation =>
           /\ currentSimulation \in activeSimulations
           /\ getSimulationStatus(currentSimulation).found
           /\ StatusResponse.status = 200
    /\ res.op \in {"start", "stop", "status"} => res.status \in {200, 400}

\* C28 witness: Status has just reported the statistics of a current
\* simulation that finished by itself.
StatusAfterNaturalEnd ==
    /\ res.op = "status"
    /\ res.status = 200
    /\ res.hasStatistics
    /\ ~res.isRunning
    /\ currentSimulation # NoSimulation
    /\ runSim[currentSimulation].pc = "done"

ErrorCountsMatchFailedSessions ==
    \A id \in SimulationIds :
        /\ ErrorCountTotal(id) = simulations[id].failed
        /\ ErrorCountTotal(id) = Cardinality(SessionsIn(id, "failed"))
        /\ ErrorCountTotal(id) <= simulations[id].statistics.failedRequests

\* C30 witness: a session has failed at its second attempt, the first having
\* been retried: two failed requests and one error counted.
SessionFailedAfterRetry ==
    \E id \in SimulationIds : \E k \in SessionsIn(id, "failed") :
        /\ userSessions[id][k].failures = 2
        /\ simulations[id].statistics.failedRequests = 2
        /\ simulations[id].failed = 1
        /\ ErrorCountTotal(id) = 1

====
